---- MODULE Spec2Model ----
(***************************************************************************)
(* dataprocessor.py: DataProcessor, Source and Pipeline.                   *)
(*                                                                         *)
(* The module is Python 2 (generator.next(), __metaclass__).  Objects are  *)
(* records, generator objects live in a heap, and one pull of the final    *)
(* consumer is executed as a chain of calls on an explicit call stack, so  *)
(* that the laziness of the generators is part of the state.               *)
(***************************************************************************)
EXTENDS Integers, Sequences, FiniteSets, TLC

\* Longest input sequence (frames argument, or what a Source yields).
MaxLen == 2
\* Most stages of the Pipeline under test, a nested Pipeline counted as one
\* stage plus its own stages.
MaxStages == 3

\* Frames are opaque to the framework; 0 is the frame a "vad" drops.
Frame == {0, 1}

\* Depth of the interpreter's call stack at which it raises RuntimeError
\* ("maximum recursion depth exceeded").  Deeper than every call chain of a
\* bounded pipeline that is not an unbounded recursion.
RecursionLimit == 2 * MaxStages

RECURSIVE SeqsUpTo(_, _)
SeqsUpTo(S, n) ==
    IF n = 0 THEN {<<>>}
    ELSE LET shorter == SeqsUpTo(S, n - 1)
         IN  shorter \cup {Append(s, x) : s \in {t \in shorter : Len(t) = n - 1}, x \in S}

Inputs == SeqsUpTo(Frame, MaxLen)

---------------------------------------------------------------------------
(* Objects.  cls is the class that decides method lookup:                  *)
(*   "Source"        a Source subclass (iterator protocol only)            *)
(*   "FrameDP"       a DataProcessor subclass overriding process_frame     *)
(*   "SeqDP"         a DataProcessor subclass overriding process_sequence  *)
(*   "DataProcessor" a DataProcessor overriding neither method             *)
(*   "Pipeline"      Pipeline, with its dps                                *)

Obj(cls, kind, dps) == [cls |-> cls, kind |-> kind, dps |-> dps]

NoObj == Obj("None", "", <<>>)

\* class Source: __iter__ is abstract; a subclass yields its data.
Source == Obj("Source", "src", <<>>)

\* class DataProcessor, instantiated as it is.
DataProcessor == Obj("DataProcessor", "", <<>>)

\* Subclasses that implement process_frame only: identity and x -> x + 1.
FrameKinds == {"id", "inc"}

\* Subclasses that implement process_sequence only, as generator functions:
\* "vad" yields the non-zero frames (output is not produced for all input
\* frames), "dup" yields every frame twice.
SeqKinds == {"vad", "dup"}

\* The objects a run is made on when no Pipeline is involved.
Processors ==
    {DataProcessor}
        \cup {Obj("FrameDP", k, <<>>) : k \in FrameKinds}
        \cup {Obj("SeqDP", k, <<>>) : k \in SeqKinds}

\* The objects a Pipeline is given as stages.
Leaves == {Source, DataProcessor, Obj("SeqDP", "vad", <<>>)}
              \cup {Obj("FrameDP", k, <<>>) : k \in FrameKinds}

\* Pipeline.__init__(self, *dps): self.dps = dps.  Nothing is checked.
Pipeline(dps) == Obj("Pipeline", "", dps)

IsPipeline(o) == o.cls = "Pipeline"

\* Stage lists of leaves only.
PlainLists == SeqsUpTo(Leaves, MaxStages)

\* d with stage o put in before position i.
InsertAt(d, i, o) == SubSeq(d, 1, i - 1) \o <<o>> \o SubSeq(d, i, Len(d))

\* Stage lists of the pipeline under test: leaves, and at most one nested
\* Pipeline (of leaves, possibly of none) at any position.
StageLists ==
    PlainLists \cup
    UNION {{InsertAt(pq[1], i, Pipeline(pq[2])) : i \in 1..(Len(pq[1]) + 1)} :
              pq \in {x \in PlainLists \X PlainLists : Len(x[1]) + 1 + Len(x[2]) <= MaxStages}}

\* The process_frame of a "FrameDP" subclass.
FrameDP_process_frame(kind, x) == IF kind = "inc" THEN x + 1 ELSE x

---------------------------------------------------------------------------
(* Iterables and the heap of iterators.                                    *)

\* What a frames argument (or a for loop's iterable) can be.
NoneRef == [t |-> "none", id |-> 0, data |-> <<>>, obj |-> NoObj]
GenRef(id) == [t |-> "gen", id |-> id, data |-> <<>>, obj |-> NoObj]
ListRef(data) == [t |-> "list", id |-> 0, data |-> data, obj |-> NoObj]
ObjRef(o) == [t |-> "obj", id |-> 0, data |-> <<>>, obj |-> o]

\* An iterator object.  kind "list" is a list iterator and "src" the iterator
\* of a Source (both over data, at pos); "map" is the generator of the default
\* process_sequence of self; "vad" and "dup" are the generators of the SeqDP
\* subclasses.  up is the generator's frames argument and it the iterator the
\* for loop made of it (0: the generator has not started).  pulled counts the
\* frames the generator got from upstream, yielded the frames it produced.
Gen(kind, self, up, data) ==
    [kind |-> kind, self |-> self, up |-> up, it |-> 0, data |-> data, pos |-> 0,
     st |-> <<>>, alive |-> TRUE, pulled |-> 0, yielded |-> 0]

\* The result of a call that may raise: exc is "" when it returns res.
R(h, r, e) == [heap |-> h, res |-> r, exc |-> e]

New(h, g) == R(Append(h, g), GenRef(Len(h) + 1), "")

---------------------------------------------------------------------------
VARIABLES
    obj,        \* the object under test (NoObj before it is constructed)
    input,      \* the frames the caller holds, which are also what a Source yields
    arg,        \* the frames argument of the process_sequence call (NoneRef: omitted)
    frame,      \* the argument of the process_frame call
    op,         \* "none", "seq" (process_sequence / toarray) or "frame" (process_frame)
    heap,       \* the iterator objects, by id
    stack,      \* the call stack: next() and process_frame() invocations
    ret,        \* what the callee that just left the stack returned or raised
    res,        \* what process_sequence returned to the consumer
    cit,        \* the iterator the consumer's for loop made of res (0: none yet)
    out,        \* the frames the consumer got so far (toarray's list)
    requested,  \* how many elements the consumer has asked for
    phase,      \* where the caller is
    exc,        \* the exception that reached the caller ("": none)
    result,     \* <<v>> once process_frame returned v
    first       \* the outcome of the nested run, kept while the flattened one runs

vars == <<obj, input, arg, frame, op, heap, stack, ret, res, cit, out, requested,
          phase, exc, result, first>>

---------------------------------------------------------------------------
(* The methods that build iterators.  None of them pulls a frame.          *)

\* A slip: iter(list(gen)), which drains the Source when the chain is built.
Source_iter_materialized(h) ==
    New(Append(h, [Gen("src", Source, NoneRef, input) EXCEPT
                      !.pos = Len(input), !.yielded = Len(input)]),
        Gen("list", NoObj, NoneRef, input))

\* iter(gen) for a Source (line 120): the subclass's iterator over its data.
Source_iter(h) == New(h, Gen("src", Source, NoneRef, input))

\* DataProcessor.process_sequence is a generator function: the call creates
\* the generator and runs none of its body.
DataProcessor_process_sequence(h, self, frames) == New(h, Gen("map", self, frames, <<>>))

\* process_sequence of a SeqDP subclass, a generator function too.
SeqDP_process_sequence(h, self, frames) == New(h, Gen(self.kind, self, frames, <<>>))

RECURSIVE process_sequence(_, _, _)
RECURSIVE Pipeline_process_sequence(_, _, _)
RECURSIVE Chain(_, _, _, _)

\* A slip: for dp in self.dps[2:], which leaves the second stage out.
RECURSIVE Chain_skipping_second_stage(_, _, _, _)
Chain_skipping_second_stage(h, dps, i, gen) ==
    IF i > Len(dps) THEN R(h, gen, "")
    ELSE IF i = 2 THEN Chain_skipping_second_stage(h, dps, 3, gen)
    ELSE LET r == process_sequence(h, dps[i], gen)
         IN  IF r.exc # "" THEN r
             ELSE Chain_skipping_second_stage(r.heap, dps, i + 1, r.res)

\* for dp in self.dps[1:]: gen = dp.process_sequence(gen), from stage i on.
Chain(h, dps, i, gen) ==
    IF i > Len(dps) THEN R(h, gen, "")
    ELSE LET r == process_sequence(h, dps[i], gen)
         IN  IF r.exc # "" THEN r ELSE Chain(r.heap, dps, i + 1, r.res)

\* Pipeline.process_sequence(self, frames=None).
Pipeline_process_sequence(h, dps, frames) ==
    IF dps = <<>> THEN R(h, NoneRef, "IndexError")
    ELSE LET gen == IF frames.t = "none"
                    THEN IF dps[1].cls = "Source"
                         THEN Source_iter(h)
                         ELSE R(h, ObjRef(dps[1]), "")
                    ELSE process_sequence(h, dps[1], frames)
         IN  IF gen.exc # "" THEN gen ELSE Chain(gen.heap, dps, 2, gen.res)

\* o.process_sequence(frames), by the class of o.  A Source has no such
\* attribute.
process_sequence(h, o, frames) ==
    CASE o.cls = "Source" -> R(h, NoneRef, "AttributeError")
      [] o.cls = "Pipeline" -> Pipeline_process_sequence(h, o.dps, frames)
      [] o.cls = "SeqDP" -> SeqDP_process_sequence(h, o, frames)
      [] OTHER -> DataProcessor_process_sequence(h, o, frames)

\* Pipeline.__iter__: return self.process_sequence().
Pipeline_iter(h, self) == Pipeline_process_sequence(h, self.dps, NoneRef)

\* The built-in iter(x) a for loop applies to its iterable: an iterator is
\* its own iterator, a list gets a list iterator, an object is asked for
\* __iter__, whose result must be an iterator.
iter(h, x) ==
    CASE x.t = "gen" -> R(h, x, "")
      [] x.t = "list" -> New(h, Gen("list", NoObj, NoneRef, x.data))
      [] x.t = "obj" /\ x.obj.cls = "Source" -> Source_iter(h)
      [] x.t = "obj" /\ x.obj.cls = "Pipeline" ->
            LET r == Pipeline_iter(h, x.obj)
            IN  IF r.exc # "" \/ r.res.t = "gen" THEN r ELSE R(h, NoneRef, "TypeError")
      [] OTHER -> R(h, NoneRef, "TypeError")

---------------------------------------------------------------------------
(* The call stack.                                                         *)

NoRet == [k |-> "none", v |-> 0, e |-> ""]
Val(v) == [k |-> "val", v |-> v, e |-> ""]
Exc(e) == [k |-> "exc", v |-> 0, e |-> e]

\* An invocation of it.next() on iterator g, and of self.process_frame(x).
NextCall(g) == [fn |-> "next", g |-> g, self |-> NoObj, x |-> 0, pc |-> "enter"]
FrameCall(o, x) == [fn |-> "process_frame", g |-> 0, self |-> o, x |-> x, pc |-> "enter"]

Top == stack[Len(stack)]
Pop == SubSeq(stack, 1, Len(stack) - 1)

\* The top frame calls fr and waits for it at pc; the interpreter refuses a
\* call deeper than its recursion limit.
Call(pc, fr) ==
    IF Len(stack) < RecursionLimit
    THEN /\ stack' = Append([stack EXCEPT ![Len(stack)].pc = pc], fr)
         /\ ret' = NoRet
    ELSE /\ stack' = stack
         /\ ret' = Exc("RuntimeError")

\* The top frame returns (or yields) v, or raises e, to its caller.
Return(v) == stack' = Pop /\ ret' = Val(v)
Raise(e) == stack' = Pop /\ ret' = Exc(e)

IsIterator(g) == g.kind \in {"list", "src"}

(* What the body of a generator does with the frame x its for loop got     *)
(* from upstream: yield v (keeping st), call self.process_frame(v) and     *)
(* yield the result, or go round the loop for the next frame.              *)

\* A slip: for x in frames: yield x
Body_yields_frame_unprocessed(g, x) == [do |-> "yield", v |-> x, st |-> g.st]

\* DataProcessor.process_sequence: for x in frames: yield self.process_frame(x)
DataProcessor_process_sequence_body(g, x) == [do |-> "process_frame", v |-> x, st |-> g.st]

\* "vad": for x in frames: if x != 0: yield x
vad_body(g, x) ==
    IF x # 0 THEN [do |-> "yield", v |-> x, st |-> g.st]
    ELSE [do |-> "next", v |-> x, st |-> g.st]

\* "dup": for x in frames: yield x; yield x
dup_body(g, x) == [do |-> "yield", v |-> x, st |-> <<x>>]

Body(g, x) ==
    CASE g.kind = "map" -> DataProcessor_process_sequence_body(g, x)
      [] g.kind = "vad" -> vad_body(g, x)
      [] OTHER -> dup_body(g, x)

\* A slip: return frame
Result_is_the_input_frame(fr, v) == fr.x

\* What DataProcessor.process_frame returns, given the first element v that
\* self.process_sequence([frame]).next() produced.
DataProcessor_process_frame_result(fr, v) == v

---------------------------------------------------------------------------
Init ==
    /\ obj = NoObj
    /\ input \in Inputs
    /\ arg = NoneRef
    /\ frame = 0
    /\ op = "none"
    /\ heap = <<>>
    /\ stack = <<>>
    /\ ret = NoRet
    /\ res = NoneRef
    /\ cit = 0
    /\ out = <<>>
    /\ requested = 0
    /\ phase = "new"
    /\ exc = ""
    /\ result = <<>>
    /\ first = [has |-> FALSE, out |-> <<>>, exc |-> "", obj |-> NoObj]

(* Construction.                                                           *)

\* Pipeline(*dps): __init__ stores the stages and checks nothing.
Pipeline_init ==
    /\ phase = "new"
    /\ \E dps \in StageLists : obj' = Pipeline(dps)
    /\ phase' = "built"
    /\ UNCHANGED <<input, arg, frame, op, heap, stack, ret, res, cit, out, requested,
                   exc, result, first>>

\* A DataProcessor (or a subclass of it) on its own.
DataProcessor_new ==
    /\ phase = "new"
    /\ obj' \in Processors
    /\ phase' = "built"
    /\ UNCHANGED <<input, arg, frame, op, heap, stack, ret, res, cit, out, requested,
                   exc, result, first>>

(* The caller.                                                             *)

\* obj.process_sequence(frames), or obj.process_sequence() on a Pipeline: the
\* first half of toarray.  The flattened run repeats the nested run's call.
CallProcessSequence ==
    /\ phase = "built"
    /\ \E a \in {NoneRef, ListRef(input)} :
          /\ a = NoneRef => IsPipeline(obj)
          /\ first.has => a = arg
          /\ arg' = a
          /\ LET r == process_sequence(heap, obj, a)
             IN  IF r.exc # ""
                 THEN /\ phase' = "error"
                      /\ exc' = r.exc
                      /\ UNCHANGED <<heap, res>>
                 ELSE /\ phase' = "ready"
                      /\ heap' = r.heap
                      /\ res' = r.res
                      /\ exc' = exc
    /\ op' = "seq"
    /\ UNCHANGED <<obj, input, frame, stack, ret, cit, out, requested, result, first>>

\* The consumer (toarray's list comprehension, or any for loop) asks for the
\* next element; the first time round the loop it applies iter() to res.
Request ==
    /\ phase = "ready"
    /\ LET r == IF cit = 0 THEN iter(heap, res) ELSE R(heap, GenRef(cit), "")
       IN  IF r.exc # ""
           THEN /\ phase' = "error"
                /\ exc' = r.exc
                /\ UNCHANGED <<heap, cit, stack, ret, requested>>
           ELSE /\ phase' = "pulling"
                /\ heap' = r.heap
                /\ cit' = r.res.id
                /\ stack' = <<NextCall(r.res.id)>>
                /\ ret' = NoRet
                /\ requested' = requested + 1
                /\ exc' = exc
    /\ UNCHANGED <<obj, input, arg, frame, op, res, out, result, first>>

\* The consumer stops pulling (it leaves its loop early); nobody is told.
Stop ==
    /\ phase = "ready"
    /\ phase' = "stopped"
    /\ UNCHANGED <<obj, input, arg, frame, op, heap, stack, ret, res, cit, out,
                   requested, exc, result, first>>

\* obj.process_frame(f), when the caller holds the single frame f.
CallProcessFrame ==
    /\ phase = "built"
    /\ ~first.has
    /\ \E f \in Frame : input = <<f>> /\ frame' = f /\ stack' = <<FrameCall(obj, f)>>
    /\ op' = "frame"
    /\ phase' = "calling"
    /\ ret' = NoRet
    /\ UNCHANGED <<obj, input, arg, heap, res, cit, out, requested, exc, result, first>>

\* The call the caller made returned a value: one more element of the
\* sequence, or process_frame's result.
Deliver ==
    /\ phase \in {"pulling", "calling"}
    /\ stack = <<>>
    /\ ret.k = "val"
    /\ IF op = "seq"
       THEN /\ out' = Append(out, ret.v)
            /\ phase' = "ready"
            /\ result' = result
       ELSE /\ result' = <<ret.v>>
            /\ phase' = "returned"
            /\ out' = out
    /\ ret' = NoRet
    /\ UNCHANGED <<obj, input, arg, frame, op, heap, stack, res, cit, requested, exc, first>>

\* The call the caller made raised.  StopIteration ends a for loop (toarray
\* then returns np.asarray of the list, out); anything else is the caller's
\* exception, and so is a StopIteration out of process_frame.
Finish ==
    /\ phase \in {"pulling", "calling"}
    /\ stack = <<>>
    /\ ret.k = "exc"
    /\ IF op = "seq" /\ ret.e = "StopIteration"
       THEN phase' = "done" /\ exc' = exc
       ELSE phase' = "error" /\ exc' = ret.e
    /\ ret' = NoRet
    /\ UNCHANGED <<obj, input, arg, frame, op, heap, stack, res, cit, out, requested,
                   result, first>>

(* The callees: one step of the frame on top of the stack.                 *)

\* next() of a list iterator or of a Source's iterator.
IterNext ==
    /\ stack # <<>>
    /\ Top.fn = "next" /\ Top.pc = "enter" /\ ret.k = "none"
    /\ IsIterator(heap[Top.g])
    /\ LET g == heap[Top.g]
       IN  IF g.pos < Len(g.data)
           THEN /\ heap' = [heap EXCEPT ![Top.g].pos = g.pos + 1,
                                        ![Top.g].yielded = g.yielded + 1]
                /\ Return(g.data[g.pos + 1])
           ELSE /\ heap' = heap
                /\ Raise("StopIteration")
    /\ UNCHANGED <<obj, input, arg, frame, op, res, cit, out, requested, phase, exc,
                   result, first>>

\* next() of a generator: a finished one raises StopIteration; "dup" owes the
\* second copy of its last frame; otherwise the for loop (which applies
\* iter() to frames when the body starts) asks upstream for a frame.
GenNext ==
    /\ stack # <<>>
    /\ Top.fn = "next" /\ Top.pc = "enter" /\ ret.k = "none"
    /\ ~IsIterator(heap[Top.g])
    /\ LET g == heap[Top.g]
           r == IF g.it = 0 THEN iter(heap, g.up) ELSE R(heap, GenRef(g.it), "")
       IN  IF ~g.alive
           THEN heap' = heap /\ Raise("StopIteration")
           ELSE IF g.st # <<>>
           THEN /\ heap' = [heap EXCEPT ![Top.g].st = <<>>,
                                        ![Top.g].yielded = g.yielded + 1]
                /\ Return(g.st[1])
           ELSE IF r.exc # ""
           THEN heap' = heap /\ stack' = stack /\ ret' = Exc(r.exc)
           ELSE /\ heap' = [r.heap EXCEPT ![Top.g].it = r.res.id]
                /\ Call("wait", NextCall(r.res.id))
    /\ UNCHANGED <<obj, input, arg, frame, op, res, cit, out, requested, phase, exc,
                   result, first>>

\* The generator's for loop got frame ret.v from upstream and runs its body.
GenResume ==
    /\ stack # <<>>
    /\ Top.fn = "next" /\ Top.pc = "wait" /\ ret.k = "val"
    /\ LET g == heap[Top.g]
           b == Body(g, ret.v)
       IN  CASE b.do = "yield" ->
                  /\ heap' = [heap EXCEPT ![Top.g].pulled = g.pulled + 1,
                                          ![Top.g].st = b.st,
                                          ![Top.g].yielded = g.yielded + 1]
                  /\ Return(b.v)
             [] b.do = "process_frame" ->
                  /\ heap' = [heap EXCEPT ![Top.g].pulled = g.pulled + 1]
                  /\ Call("waitpf", FrameCall(g.self, b.v))
             [] OTHER ->
                  /\ heap' = [heap EXCEPT ![Top.g].pulled = g.pulled + 1]
                  /\ Call("wait", NextCall(g.it))
    /\ UNCHANGED <<obj, input, arg, frame, op, res, cit, out, requested, phase, exc,
                   result, first>>

\* yield self.process_frame(x): process_frame returned ret.v.
GenYield ==
    /\ stack # <<>>
    /\ Top.fn = "next" /\ Top.pc = "waitpf" /\ ret.k = "val"
    /\ heap' = [heap EXCEPT ![Top.g].yielded = heap[Top.g].yielded + 1]
    /\ Return(ret.v)
    /\ UNCHANGED <<obj, input, arg, frame, op, res, cit, out, requested, phase, exc,
                   result, first>>

\* self.process_frame(x) begins.  A FrameDP runs its own method.  Otherwise it
\* is DataProcessor.process_frame: self.process_sequence([frame]).next().
FrameEnter ==
    /\ stack # <<>>
    /\ Top.fn = "process_frame" /\ Top.pc = "enter" /\ ret.k = "none"
    /\ LET r == process_sequence(heap, Top.self, ListRef(<<Top.x>>))
       IN  IF Top.self.cls = "FrameDP"
           THEN heap' = heap /\ Return(FrameDP_process_frame(Top.self.kind, Top.x))
           ELSE IF r.exc # ""
           THEN heap' = heap /\ stack' = stack /\ ret' = Exc(r.exc)
           ELSE IF r.res.t # "gen"
           THEN heap' = r.heap /\ stack' = stack /\ ret' = Exc("AttributeError")
           ELSE heap' = r.heap /\ Call("wait", NextCall(r.res.id))
    /\ UNCHANGED <<obj, input, arg, frame, op, res, cit, out, requested, phase, exc,
                   result, first>>

\* DataProcessor.process_frame returns what .next() gave it; the generator it
\* made is dropped where it stands.
FrameReturn ==
    /\ stack # <<>>
    /\ Top.fn = "process_frame" /\ Top.pc = "wait" /\ ret.k = "val"
    /\ Return(DataProcessor_process_frame_result(Top, ret.v))
    /\ UNCHANGED <<obj, input, arg, frame, op, heap, res, cit, out, requested, phase,
                   exc, result, first>>

\* An exception leaves the top frame for its caller: no frame of this module
\* catches one.  A generator it leaves is finished (in Python 2 a
\* StopIteration raised inside a generator's body ends the generator like
\* any return).
Propagate ==
    /\ stack # <<>>
    /\ ret.k = "exc"
    /\ stack' = Pop
    /\ heap' = IF Top.fn = "next" /\ ~IsIterator(heap[Top.g])
               THEN [heap EXCEPT ![Top.g].alive = FALSE]
               ELSE heap
    /\ UNCHANGED <<obj, input, arg, frame, op, ret, res, cit, out, requested, phase,
                   exc, result, first>>

(* The same call on the flattened pipeline.                                *)

RECURSIVE FlatStages(_)
FlatStages(dps) ==
    IF dps = <<>> THEN <<>>
    ELSE (IF IsPipeline(Head(dps)) THEN Head(dps).dps ELSE <<Head(dps)>>)
            \o FlatStages(Tail(dps))

HasInner(o) == IsPipeline(o) /\ \E i \in 1..Len(o.dps) : IsPipeline(o.dps[i])

\* After the run on a Pipeline with a nested Pipeline: construct the Pipeline
\* of the flattened stage list, to be called the same way.
Pipeline_init_flattened ==
    /\ phase \in {"done", "error"}
    /\ op = "seq"
    /\ HasInner(obj)
    /\ ~first.has
    /\ first' = [has |-> TRUE, out |-> out, exc |-> exc, obj |-> obj]
    /\ obj' = Pipeline(FlatStages(obj.dps))
    /\ phase' = "built"
    /\ heap' = <<>>
    /\ stack' = <<>>
    /\ ret' = NoRet
    /\ res' = NoneRef
    /\ cit' = 0
    /\ out' = <<>>
    /\ requested' = 0
    /\ exc' = ""
    /\ UNCHANGED <<input, arg, frame, op, result>>

\* The steps the caller takes, and those of the frames it called.
Caller ==
    \/ Pipeline_init
    \/ DataProcessor_new
    \/ CallProcessSequence
    \/ Request
    \/ Stop
    \/ CallProcessFrame
    \/ Deliver
    \/ Finish
    \/ Pipeline_init_flattened

Callee ==
    \/ IterNext
    \/ GenNext
    \/ GenResume
    \/ GenYield
    \/ FrameEnter
    \/ FrameReturn
    \/ Propagate

Next == Caller \/ Callee

Spec == Init /\ [][Next]_vars

---------------------------------------------------------------------------
(* What the claims are stated against: the sequence a stage's              *)
(* process_sequence produces from a finite input, as a value.              *)

Inc == Obj("FrameDP", "inc", <<>>)
Id == Obj("FrameDP", "id", <<>>)
Vad == Obj("SeqDP", "vad", <<>>)
Dup == Obj("SeqDP", "dup", <<>>)

IsPrefix(s, t) == Len(s) <= Len(t) /\ SubSeq(t, 1, Len(s)) = s

NonZero(x) == x # 0

RECURSIVE Transform(_)
\* o is a usable transform: it implements one of the two methods, and a
\* Pipeline has stages, all of them transforms.
Transform(o) ==
    \/ o.cls \in {"FrameDP", "SeqDP"}
    \/ /\ IsPipeline(o)
       /\ o.dps # <<>>
       /\ \A i \in 1..Len(o.dps) : Transform(o.dps[i])

RECURSIVE Yields(_, _)
RECURSIVE YieldsChain(_, _, _)
\* The frames o.process_sequence(s) yields, for a transform o.
Yields(o, s) ==
    CASE o.cls = "FrameDP" -> [i \in 1..Len(s) |-> FrameDP_process_frame(o.kind, s[i])]
      [] o.cls = "SeqDP" /\ o.kind = "vad" -> SelectSeq(s, NonZero)
      [] o.cls = "SeqDP" /\ o.kind = "dup" -> [i \in 1..(2 * Len(s)) |-> s[(i + 1) \div 2]]
      [] o.cls = "Pipeline" -> YieldsChain(o.dps, 1, s)
      [] OTHER -> <<>>

\* dps[n].process_sequence(... dps[i].process_sequence(s) ...)
YieldsChain(dps, i, s) ==
    IF i > Len(dps) THEN s ELSE YieldsChain(dps, i + 1, Yields(dps[i], s))

\* The generators nothing downstream reads: the output end of a chain.
OutputGens ==
    {i \in 1..Len(heap) :
        /\ ~IsIterator(heap[i])
        /\ \A j \in 1..Len(heap) : heap[j].up # GenRef(i)}

---------------------------------------------------------------------------
\* C1: for a DataProcessor that overrides only process_frame, the inherited
\* process_sequence yields, for a finite input, one output per input frame in
\* input order: at every moment the output so far is process_frame of the
\* first frames of the input, it never fails, and once exhausted the output
\* is as long as the input.
C1_DefaultSequenceMapsFrames ==
    (obj.cls = "FrameDP" /\ op = "seq") =>
        /\ phase # "error"
        /\ Len(out) <= Len(input)
        /\ \A i \in 1..Len(out) : out[i] = FrameDP_process_frame(obj.kind, input[i])
        /\ phase = "done" => Len(out) = Len(input)

C1_Witness ==
    /\ obj = Inc /\ op = "seq" /\ phase = "done"
    /\ input = <<0, 1>> /\ out = <<1, 2>>

\* C2: for a DataProcessor that overrides only process_sequence (a SeqDP, or
\* a Pipeline), the inherited process_frame(f) returns the first element
\* that process_sequence([f]) produces, having taken exactly one element
\* from that generator, which is left suspended; it fails only when there is
\* no first element to return.
C2_DefaultFrameReturnsFirst ==
    (op = "frame" /\ obj.cls \in {"SeqDP", "Pipeline"}) =>
        /\ phase = "returned" =>
              /\ Transform(obj)
              /\ Yields(obj, <<frame>>) # <<>>
              /\ result = <<Head(Yields(obj, <<frame>>))>>
              /\ \A i \in OutputGens : heap[i].yielded = 1 /\ heap[i].alive
        /\ (phase = "error" /\ Transform(obj)) => Yields(obj, <<frame>>) = <<>>

C2_Witness ==
    /\ obj = Dup /\ op = "frame" /\ frame = 1 /\ phase = "returned"
    /\ result = <<1>>
    /\ heap[1].st = <<1>>

\* C3: for a Pipeline of transforms s0..sn called with a finite frames
\* sequence, what the consumer drains from process_sequence(frames) is
\* sn.process_sequence(... s0.process_sequence(frames) ...): always a prefix
\* of it, all of it once exhausted (which is the list toarray(frames)
\* converts), never an error; with identity stages only it is frames.
C3_PipelineComposesStages ==
    (op = "seq" /\ IsPipeline(obj) /\ arg.t = "list" /\ Transform(obj)) =>
        /\ phase # "error"
        /\ IsPrefix(out, YieldsChain(obj.dps, 1, input))
        /\ phase = "done" => out = YieldsChain(obj.dps, 1, input)
        /\ (phase = "done" /\ \A i \in 1..Len(obj.dps) : obj.dps[i] = Id) => out = input

C3_Witness ==
    /\ obj = Pipeline(<<Vad, Inc>>) /\ op = "seq" /\ arg = ListRef(<<0, 1>>)
    /\ phase = "done" /\ out = <<2>>

C3_WitnessIdentity ==
    /\ obj = Pipeline(<<Id, Id, Id>>) /\ op = "seq" /\ arg = ListRef(<<1, 0>>)
    /\ phase = "done" /\ out = <<1, 0>>

\* The stages of o use the default, element-wise process_sequence (o is a
\* Pipeline of DataProcessors that do not override it, after a Source if any).
ElementWise(o) ==
    /\ IsPipeline(o)
    /\ \A i \in 1..Len(FlatStages(o.dps)) :
          FlatStages(o.dps)[i].cls \in {"Source", "FrameDP", "DataProcessor"}

\* C5: no stage runs ahead of demand.  In a Pipeline of element-wise stages,
\* when the consumer has asked for k elements no generator has taken more
\* than k frames from its upstream and no more than k frames have left the
\* Source or the input list (none at all when process_sequence has just been
\* called); once the consumer has stopped, no callee can take a step.
C5_NoStageRunsAhead ==
    (op = "seq" /\ ElementWise(obj)) =>
        /\ \A i \in 1..Len(heap) : heap[i].pulled <= requested /\ heap[i].pos <= requested
        /\ phase = "stopped" => (stack = <<>> /\ ~ENABLED Callee)

C5_Witness ==
    /\ obj = Pipeline(<<Source, Inc, Id>>) /\ op = "seq" /\ arg = NoneRef
    /\ input = <<0, 1>> /\ requested = 1 /\ out = <<1>> /\ phase = "stopped"
    /\ heap[1].kind = "src" /\ heap[1].pos = 1
    /\ \A i \in 2..Len(heap) : heap[i].pulled = 1

\* C4: a Pipeline with a nested Pipeline produces the output of the Pipeline
\* of its flattened stage list, called the same way: when the flattened
\* Pipeline has been drained, the nested one was drained too, without an
\* exception, and gave the same frames.
C4_NestedEqualsFlattened ==
    (first.has /\ phase = "done") => (first.exc = "" /\ first.out = out)

\* What does hold of nesting: the two runs end the same way, frames and
\* exception alike, whenever the nested Pipeline has at least one stage.
NestedEqualsFlattenedUnlessEmpty ==
    (first.has /\ phase \in {"done", "error"}
        /\ \A i \in 1..Len(first.obj.dps) :
              IsPipeline(first.obj.dps[i]) => first.obj.dps[i].dps # <<>>) =>
        (out = first.out /\ exc = first.exc)

\* C6: a DataProcessor that overrides neither method fails with a
\* ConfigurationError, and its two default methods never call each other
\* into a chain: process_frame is never entered while process_frame is
\* running.
C6_NeitherOverriddenIsDetected ==
    obj = DataProcessor =>
        /\ phase = "error" => exc = "ConfigurationError"
        /\ Cardinality({i \in 1..Len(stack) : stack[i].fn = "process_frame"}) <= 1

\* C7: when process_sequence([f]) yields nothing, the inherited
\* process_frame(f) returns no value and fails with a StarvationError.
C7_StarvationError ==
    (op = "frame" /\ obj.cls \in {"SeqDP", "Pipeline"} /\ Transform(obj)
        /\ Yields(obj, <<frame>>) = <<>>) =>
        /\ phase # "returned"
        /\ phase = "error" => exc = "StarvationError"

\* The Pipeline objects that exist: the one under test and those it holds.
Pipelines ==
    {o \in {obj} \cup {obj.dps[i] : i \in 1..Len(obj.dps)} : IsPipeline(o)}

\* C8: no Pipeline object with zero stages exists (constructing one raises
\* ConfigurationError).
C8_NoEmptyPipeline == \A p \in Pipelines : p.dps # <<>>

RECURSIVE Generator(_)
\* o produces a sequence without input: a Source, or a Pipeline whose first
\* stage does.
Generator(o) ==
    \/ o.cls = "Source"
    \/ IsPipeline(o) /\ o.dps # <<>> /\ Generator(o.dps[1])

\* C9: process_sequence() with frames omitted on a Pipeline whose stage 0 is
\* not a Generator fails with a ConfigurationError: it returns no chain.
C9_NoGeneratorIsConfigurationError ==
    (op = "seq" /\ IsPipeline(obj) /\ obj.dps # <<>> /\ arg = NoneRef
        /\ ~Generator(obj.dps[1])) =>
        (phase = "error" /\ exc = "ConfigurationError")

\* C10: in every constructed Pipeline the stages after the first are
\* transforms, none a Source (constructing such a Pipeline raises
\* ConfigurationError).
C10_LaterStagesAreTransforms ==
    \A p \in Pipelines : \A i \in 2..Len(p.dps) : p.dps[i].cls # "Source"

====
